---- MODULE Spec2Model ----
(***************************************************************************)
(* zeroconfig: compiling a logging configuration into a zerolog logger.   *)
(*                                                                         *)
(* The model covers the level-windowed writer (MinMaxLevelWriter), the     *)
(* writer-compiler registry, WriterConfig.Compile, Config.Compile and the  *)
(* write path of the compiled logger.  The logging engine itself           *)
(* (github.com/rs/zerolog v1.29.0, go.mod) is a dependency: the operators   *)
(* that stand for it (LoggerShould, MultiWriteLevel, ConsoleWrite, Nop)     *)
(* follow its documented behaviour and the repository's tests.             *)
(***************************************************************************)
EXTENDS Integers, Sequences, FiniteSets, TLC

VARIABLES
    Stdout,           \* process-wide slot used by the stdout writer type
    Stderr,           \* process-wide slot used by the stderr writer type
    writerCompilers,  \* registry: writer type -> compiler name
    envOK,            \* the operating system lets a sink initialise (Rotate, Dial)
    logger,           \* the *zerolog.Logger returned by the last Config.Compile
    err,              \* the error returned by the last Config.Compile
    cfg,              \* the Config the last Config.Compile was called on
    mlw,              \* a writer obtained directly from MinMaxLevelWriter
    constructed,      \* invocations of writer compilers, in the order they happened
    calls,            \* invocations of concrete sinks, in the order they happened
    history           \* API calls issued so far (log calls, WriteLevel calls)

vars == <<Stdout, Stderr, writerCompilers, envOK, logger, err, cfg, mlw, constructed,
          calls, history>>

---------------------------------------------------------------------------
(* Bounds of the model. *)

\* number of WriteLevel / Write calls issued on a directly built writer
MaxWrites == 2
\* number of records logged through a compiled logger
MaxLogs == 2
\* length of the writers list where the claims do not fix it
MaxWriters == 2

---------------------------------------------------------------------------
(* Severity levels: zerolog.Level, an int8 scale. *)

TraceLevel == -1
DebugLevel == 0
InfoLevel == 1
WarnLevel == 2
ErrorLevel == 3
FatalLevel == 4
PanicLevel == 5
NoLevel == 6
Disabled == 7

Levels == TraceLevel..Disabled

\* the absent *zerolog.Level (nil pointer) of a configuration field
Nil == 100

\* zerolog.Level.String(), the value of the "level" field of a JSON line
LevelString(l) ==
    CASE l = TraceLevel -> "trace"
      [] l = DebugLevel -> "debug"
      [] l = InfoLevel  -> "info"
      [] l = WarnLevel  -> "warn"
      [] l = ErrorLevel -> "error"
      [] l = FatalLevel -> "fatal"
      [] l = PanicLevel -> "panic"
      [] l = Disabled   -> "disabled"
      [] OTHER          -> ""

---------------------------------------------------------------------------
(* Payloads.  A line is a sequence of <<key, value>> tokens; len(p) is the  *)
(* number of tokens.                                                        *)

Msg(k) == <<"meow #1", "meow #2", "meow #3", "meow #4">>[k]

\* the JSON line the engine produces for a record: context fields, then the
\* level field (absent for NoLevel), then the message
JSONLine(ctx, l, k) ==
    (IF l = NoLevel THEN <<>> ELSE << <<"level", LevelString(l)>> >>)
        \o ctx \o << <<"message", Msg(k)>> >>

\* zerolog.ConsoleWriter's three-letter level tag
LevelTag(s) ==
    CASE s = "trace" -> "TRC"
      [] s = "debug" -> "DBG"
      [] s = "info"  -> "INF"
      [] s = "warn"  -> "WRN"
      [] s = "error" -> "ERR"
      [] s = "fatal" -> "FTL"
      [] s = "panic" -> "PNC"
      [] OTHER       -> "???"

Field(p, key, default) ==
    IF \E i \in DOMAIN p : p[i][1] = key
    THEN (p[CHOOSE i \in DOMAIN p : p[i][1] = key])[2]
    ELSE default

RECURSIVE Others(_)
Others(p) ==
    IF p = <<>> THEN <<>>
    ELSE (IF Head(p)[1] \in {"level", "message", "time", "caller"} THEN <<>>
          ELSE <<Head(p)>>)
             \o Others(Tail(p))

\* A key of the metadata map is a Go string: the sequence of its bytes.
\* a < b on Go strings: bytewise, a proper prefix before its extensions
RECURSIVE StringLess(_, _)
StringLess(a, b) ==
    CASE a = <<>> -> b # <<>>
      [] b = <<>> -> FALSE
      [] Head(a) < Head(b) -> TRUE
      [] Head(a) > Head(b) -> FALSE
      [] OTHER -> StringLess(Tail(a), Tail(b))

\* x put into the ascending sequence s, before the first element greater than it
RECURSIVE Insert(_, _)
Insert(x, s) ==
    IF s = <<>> THEN <<x>>
    ELSE IF StringLess(x, Head(s)) THEN <<x>> \o s
    ELSE <<Head(s)>> \o Insert(x, Tail(s))

\* sort.Strings: the keys in ascending order
RECURSIVE SortStrings(_)
SortStrings(keys) ==
    IF keys = <<>> THEN <<>> ELSE Insert(Head(keys), SortStrings(Tail(keys)))

\* a field added with Interface(key, value), as a token of a line
MetaField(key, value) == <<"field", key, value>>

\* the tokens of fs whose key is key
WithKey(fs, key) == SelectSeq(fs, LAMBDA t : t[2] = key)

\* ConsoleWriter.writeFields: the fields other than level, time, message and
\* caller are written in the order sort.Strings puts their names in
RECURSIVE FieldsInOrder(_, _)
FieldsInOrder(fs, keys) ==
    IF keys = <<>> THEN <<>>
    ELSE WithKey(fs, Head(keys)) \o FieldsInOrder(fs, Tail(keys))

RECURSIVE KeysOf(_)
KeysOf(fs) ==
    IF fs = <<>> THEN <<>>
    ELSE LET rest == KeysOf(Tail(fs))
         IN  IF \E i \in DOMAIN rest : rest[i] = Head(fs)[2] THEN rest
             ELSE <<Head(fs)[2]>> \o rest

\* zerolog.ConsoleWriter: the JSON line is parsed and rendered as
\* "<time> <LVL> <caller> <message> key=value...\n", the keys sorted
Render(console, timeFormat, p) ==
    << <<timeFormat, Field(p, "time", "<nil>")>>,
       <<IF console = "color" THEN "colored" ELSE "plain", LevelTag(Field(p, "level", ""))>> >>
        \o (IF \E i \in DOMAIN p : p[i][1] = "caller"
            THEN << <<"caller", Field(p, "caller", "")>> >> ELSE <<>>)
        \o << <<"msg", Field(p, "message", "")>> >>
        \o FieldsInOrder(Others(p), SortStrings(KeysOf(Others(p))))
        \o << <<"eol", "\n">> >>

---------------------------------------------------------------------------
(* Writers.  A writer value is the stack WriterConfig.Compile builds:       *)
(*   sink    the concrete destination,                                      *)
(*   native  the sink implements zerolog.LevelWriter itself,                *)
(*   console "none" | "nocolor" | "color": a zerolog.ConsoleWriter on top,  *)
(*   window  a minMaxLevelWriter on top, with MinLevel and MaxLevel,        *)
(*   adapter the minMaxLevelWriter holds a levelWriterAdapter.              *)

PlainWriter(sink, native) ==
    [sink |-> sink, native |-> native, console |-> "none", timeFormat |-> "",
     window |-> FALSE, adapter |-> FALSE, MinLevel |-> NoLevel, MaxLevel |-> NoLevel]

\* writer.(zerolog.LevelWriter) succeeds
IsLevelWriter(w) == w.window \/ (w.console = "none" /\ w.native)

Result(n, e, cs) == [n |-> n, err |-> e, calls |-> cs]

\* One invocation of a concrete sink with payload p.  o is what the sink
\* does with it: "ok" stores p, "fail" stores nothing and returns an error,
\* "short" stores all but the last token and returns no error.
SinkCall(w, method, l, p, o) ==
    Result(CASE o = "ok" -> Len(p) [] o = "short" -> Len(p) - 1 [] OTHER -> 0,
           IF o = "fail" THEN "sink error" ELSE "nil",
           << [sink |-> w.sink, method |-> method, level |-> l, p |-> p, o |-> o] >>)

\* JSWriter.WriteLevel: Disabled returns at once, any other level is handed to
\* the console method of that level; the call always reports len(p)
JSWriteLevel(w, l, p) ==
    IF l = Disabled THEN Result(Len(p), "nil", <<>>)
    ELSE Result(Len(p), "nil",
                << [sink |-> w.sink, method |-> "WriteLevel", level |-> l,
                    p |-> p, o |-> "ok"] >>)

\* WriteLevel of a sink that is a zerolog.LevelWriter itself
NativeWriteLevel(w, l, p, o) ==
    IF w.sink = "console" THEN JSWriteLevel(w, l, p)
    ELSE SinkCall(w, "WriteLevel", l, p, o)

\* zerolog.ConsoleWriter.Write: renders, writes the rendering to Out with
\* buf.WriteTo, and returns len(p) with WriteTo's error
ConsoleWrite(w, p, o) ==
    LET r == SinkCall(w, "Write", NoLevel, Render(w.console, w.timeFormat, p), o)
    IN  Result(Len(p),
               CASE r.err # "nil" -> r.err [] o = "short" -> "short write" [] OTHER -> "nil",
               r.calls)

\* Write on the writer below the window: the console writer when there is
\* one, else the sink (JSWriter.Write is WriteLevel at debug level)
InnerWrite(w, p, o) ==
    CASE w.console # "none" -> ConsoleWrite(w, p, o)
      [] w.sink = "console" -> JSWriteLevel(w, DebugLevel, p)
      [] OTHER -> SinkCall(w, "Write", NoLevel, p, o)

\* mutant: the adapter reports the whole payload written, whatever the
\* inner writer returned
AdapterWriteLevelSwallow(w, l, p, o) == Result(Len(p), "nil", InnerWrite(w, p, o).calls)

\* levelWriterAdapter.WriteLevel: the level is dropped, the result is Write's
AdapterWriteLevel(w, l, p, o) == InnerWrite(w, p, o)

\* WriteLevel on the zerolog.LevelWriter a window or a logger holds:
\* the adapter when the writer below is no LevelWriter
LwWriteLevel(w, adapted, l, p, o) ==
    IF adapted THEN AdapterWriteLevel(w, l, p, o) ELSE NativeWriteLevel(w, l, p, o)

\* mutant: the upper bound is compared strictly
InWindowStrictMax(min, max, l) ==
    (min = NoLevel \/ l >= min) /\ (max = NoLevel \/ l < max)

\* the condition of minMaxLevelWriter.WriteLevel
InWindow(min, max, l) ==
    (min = NoLevel \/ l >= min) /\ (max = NoLevel \/ l <= max)

\* MinMaxLevelWriter(writer, minLevel, maxLevel)
MinMaxLevelWriter(writer, minLevel, maxLevel) ==
    [writer EXCEPT !.window = TRUE, !.adapter = ~IsLevelWriter(writer),
                   !.MinLevel = minLevel, !.MaxLevel = maxLevel]

\* mutant: a filtered record is reported as a zero-byte write
MlwWriteLevelZero(w, l, p, o) ==
    IF InWindow(w.MinLevel, w.MaxLevel, l)
    THEN LwWriteLevel(w, w.adapter, l, p, o)
    ELSE Result(0, "nil", <<>>)

\* minMaxLevelWriter.WriteLevel
MlwWriteLevel(w, l, p, o) ==
    IF InWindow(w.MinLevel, w.MaxLevel, l)
    THEN LwWriteLevel(w, w.adapter, l, p, o)
    ELSE Result(Len(p), "nil", <<>>)

\* mutant: a plain write is put through the window as a record without level
MlwWriteWindowed(w, p, o) ==
    IF InWindow(w.MinLevel, w.MaxLevel, NoLevel) THEN InnerWrite(w, p, o)
    ELSE Result(Len(p), "nil", <<>>)

\* minMaxLevelWriter.Write: minMaxLevelWriter declares no Write, so the call
\* is the Write promoted from the embedded zerolog.LevelWriter: that of the
\* inner writer, or of the io.Writer embedded in the levelWriterAdapter
MlwWrite(w, p, o) == InnerWrite(w, p, o)

\* WriteLevel on a finished writer; zerolog.New and zerolog.MultiLevelWriter
\* put their own level-dropping adapter around a writer that is no LevelWriter
WriteLevel(w, l, p, o) ==
    IF w.window THEN MlwWriteLevel(w, l, p, o)
    ELSE LwWriteLevel(w, ~IsLevelWriter(w), l, p, o)

Outcomes == {"ok", "fail", "short"}

\* what a sink holds after an invocation
Stored(c) ==
    CASE c.o = "ok" -> c.p [] c.o = "short" -> SubSeq(c.p, 1, Len(c.p) - 1) [] OTHER -> <<>>

\* sink invocations tagged with the API call they belong to and the position
\* of the member writer that made them
Tag(cs, id, member) ==
    [i \in DOMAIN cs |->
        [id |-> id, member |-> member, sink |-> cs[i].sink, method |-> cs[i].method,
         level |-> cs[i].level, p |-> cs[i].p, o |-> cs[i].o]]

---------------------------------------------------------------------------
(* Configuration values.  A WriterConfig is [Type, Format, MinLevel,        *)
(* MaxLevel, TimeFormat]; a Config is [Writers, MinLevel, Timestamp,        *)
(* Caller, Metadata].  MinLevel and MaxLevel are Nil or a level; Timestamp  *)
(* is "nil", "true" or "false" (a *bool); Metadata is a function from keys  *)
(* to values, the map[string]any.                                           *)

WC(type, format, min, max) ==
    [Type |-> type, Format |-> format, MinLevel |-> min, MaxLevel |-> max,
     TimeFormat |-> ""]

Cfg(ws, min) ==
    [Writers |-> ws, MinLevel |-> min, Timestamp |-> "false", Caller |-> FALSE,
     Metadata |-> <<>>]

\* the orders in which a range over a map with key set K can yield the keys
Orders(K) ==
    {s \in [1..Cardinality(K) -> K] : \A i, j \in DOMAIN s : i # j => s[i] # s[j]}

\* levelPtr
levelPtr(ptr) == IF ptr = Nil THEN NoLevel ELSE ptr

---------------------------------------------------------------------------
(* The writer-compiler registry and the compilers. *)

\* the map literal of writerCompilers
BuiltinCompilers ==
    [t \in {"stdout", "stderr", "file", "journald", "syslog", "syslog-cee"} |->
        CASE t = "stdout" -> "stdout"
          [] t = "stderr" -> "stderr"
          [] t = "file"   -> "compileFile"
          [] OTHER        -> "compileUnsupported"]

\* RegisterWriter: insert or overwrite
Registered(reg, wt, compiler) ==
    [t \in DOMAIN reg \cup {wt} |-> IF t = wt THEN compiler ELSE reg[t]]

\* the registry after the init() of a unix build
RegistryUnix ==
    Registered(Registered(Registered(BuiltinCompilers,
        "syslog", "compileSyslog"), "syslog-cee", "compileSyslog"),
        "journald", "compileJournald")

\* the registry after the init() of a js/wasm build
RegistryJS == Registered(BuiltinCompilers, "js", "compileJS")

CompileFail(kind, tag) ==
    [ok |-> FALSE, kind |-> kind, tag |-> tag, w |-> PlainWriter("none", FALSE),
     Format |-> ""]
CompileOk(w, format) ==
    [ok |-> TRUE, kind |-> "nil", tag |-> "", w |-> w, Format |-> format]

\* mutant: the stdout and stderr kinds hold the streams the slots had when
\* the registry was initialised
RunCompilerInitialSlots(name, wc, so, se, osOK) ==
    CASE name = "stdout" -> CompileOk(PlainWriter("os.Stdout", FALSE), wc.Format)
      [] name = "stderr" -> CompileOk(PlainWriter("os.Stderr", FALSE), wc.Format)
      [] OTHER -> CompileFail("not supported on this OS", wc.Type)

\* The compilers.  so and se are the values of the Stdout and Stderr slots
\* when the compiler runs; ok says whether the operating system lets the
\* collaborator initialise (lumberjack's Rotate, syslog.Dial).  A compiler
\* gets the *WriterConfig and may change it: Format is the format tag it
\* leaves behind.
RunCompiler(name, wc, so, se, osOK) ==
    CASE name = "stdout" -> CompileOk(PlainWriter(so, FALSE), wc.Format)
      [] name = "stderr" -> CompileOk(PlainWriter(se, FALSE), wc.Format)
      [] name = "compileFile" ->
            IF osOK THEN CompileOk(PlainWriter("file", FALSE), wc.Format)
            ELSE CompileFail("rotate failed", "")
      [] name = "compileSyslog" ->
            IF osOK THEN CompileOk(PlainWriter("syslog", TRUE), wc.Format)
            ELSE CompileFail("dial failed", "")
      [] name = "compileJournald" -> CompileOk(PlainWriter("journald", FALSE), wc.Format)
      [] name = "compileJS" -> CompileOk(PlainWriter("console", TRUE), "json")
      [] name = "compileCustom" -> CompileOk(PlainWriter("custom", FALSE), wc.Format)
      [] OTHER -> CompileFail("not supported on this OS", wc.Type)

\* WriterConfig.compileMain
compileMain(wc, reg, so, se, osOK) ==
    IF wc.Type \notin DOMAIN reg
    THEN CompileFail("unknown writer type", wc.Type)
    ELSE RunCompiler(reg[wc.Type], wc, so, se, osOK)

\* mutant: the default case of the switch passes the output through
FormatStageNoDefault(format, timeFormat, output) ==
    CASE format \in {"pretty", "pretty-colored"} ->
            CompileOk([output EXCEPT
                !.console = IF format = "pretty" THEN "nocolor" ELSE "color",
                !.timeFormat = IF timeFormat # "" THEN timeFormat
                               ELSE "2006-01-02T15:04:05.999Z07:00"], format)
      [] OTHER -> CompileOk(output, format)

\* the switch on wc.Format of WriterConfig.Compile
FormatStage(format, timeFormat, output) ==
    CASE format \in {"", "json"} -> CompileOk(output, format)
      [] format \in {"pretty", "pretty-colored"} ->
            CompileOk([output EXCEPT
                !.console = IF format = "pretty" THEN "nocolor" ELSE "color",
                !.timeFormat = IF timeFormat # "" THEN timeFormat
                               ELSE "2006-01-02T15:04:05.999Z07:00"], format)
      [] OTHER -> CompileFail("unknown format", format)

\* mutant: the bounds are passed in the wrong order
WindowStageSwapped(wc, output) ==
    IF wc.MinLevel # Nil \/ wc.MaxLevel # Nil
    THEN MinMaxLevelWriter(output, levelPtr(wc.MaxLevel), levelPtr(wc.MinLevel))
    ELSE output

\* the last step of WriterConfig.Compile
WindowStage(wc, output) ==
    IF wc.MinLevel # Nil \/ wc.MaxLevel # Nil
    THEN MinMaxLevelWriter(output, levelPtr(wc.MinLevel), levelPtr(wc.MaxLevel))
    ELSE output

\* mutant: the format tag is examined before the constructor is looked up
WriterConfigCompileFormatFirst(wc, reg, so, se, osOK) ==
    LET f == FormatStage(wc.Format, wc.TimeFormat, PlainWriter("none", FALSE))
    IN  IF ~f.ok THEN f
        ELSE LET m == compileMain(wc, reg, so, se, osOK)
             IN  IF ~m.ok THEN m
                 ELSE CompileOk(WindowStage(wc, FormatStage(m.Format, wc.TimeFormat, m.w).w),
                                m.Format)

\* the constructor call compileMain makes for the entry at 0-based index i:
\* compiler(wc) when the type is registered, none when it is not
Invoked(wc, i, reg) ==
    IF wc.Type \in DOMAIN reg THEN << [pos |-> i + 1, compiler |-> reg[wc.Type]] >>
    ELSE <<>>

\* WriterConfig.Compile
WriterConfigCompile(wc, reg, so, se, osOK) ==
    LET m == compileMain(wc, reg, so, se, osOK)
    IN  IF ~m.ok THEN m
        ELSE LET f == FormatStage(m.Format, wc.TimeFormat, m.w)
             IN  IF ~f.ok THEN f
                 ELSE CompileOk(WindowStage(wc, f.w), m.Format)

---------------------------------------------------------------------------
(* Config.Compile. *)

NoLogger == [ok |-> FALSE, level |-> TraceLevel, ctx |-> <<>>,
             multi |-> FALSE, writers |-> <<>>]
NoErr == [kind |-> "nil", pos |-> 0, tag |-> ""]

\* zerolog.Nop(): a logger on io.Discard at level Disabled
Nop == [ok |-> TRUE, level |-> Disabled, ctx |-> <<>>,
        multi |-> FALSE, writers |-> <<>>]

\* mutant: the disabled level is not looked at
IsInertOnlyEmpty(c) == Len(c.Writers) = 0

\* the condition of the first if of Config.Compile
IsInert(c) == Len(c.Writers) = 0 \/ (c.MinLevel # Nil /\ c.MinLevel = Disabled)

\* mutant: the position is the 0-based loop index
ErrorPositionZeroBased(i) == i

\* the writer number in the error of the loop, for 0-based loop index i
ErrorPosition(i) == i + 1

\* the loop over c.Writers, from 0-based index i on, with writers[0..i-1] = acc;
\* invoked are the constructor calls made from index i on
RECURSIVE CompileWriters(_, _, _, _, _, _, _)
CompileWriters(ws, i, acc, reg, so, se, osOK) ==
    IF i >= Len(ws) THEN [ok |-> TRUE, err |-> NoErr, writers |-> acc, invoked |-> <<>>]
    ELSE LET r == WriterConfigCompile(ws[i + 1], reg, so, se, osOK)
             inv == Invoked(ws[i + 1], i, reg)
         IN  IF ~r.ok
             THEN [ok |-> FALSE,
                   err |-> [kind |-> r.kind, pos |-> ErrorPosition(i), tag |-> r.tag],
                   writers |-> <<>>, invoked |-> inv]
             ELSE LET rest == CompileWriters(ws, i + 1, Append(acc, r.w), reg, so, se, osOK)
                  IN  [rest EXCEPT !.invoked = inv \o @]

\* mutant: the first writer is used whatever the length of the list
RealWriterFirstOnly(writers) == [multi |-> FALSE, writers |-> <<writers[1]>>]

\* mutant: a single writer is wrapped in the multi-writer too
RealWriterAlwaysMulti(writers) == [multi |-> TRUE, writers |-> writers]

\* realWriter: the only writer itself, or zerolog.MultiLevelWriter(writers...)
RealWriter(writers) == [multi |-> Len(writers) > 1, writers |-> writers]

\* the hooks zerolog.New(realWriter).With() collects: the time stamp unless
\* disabled, the caller when asked for; a hook adds its field to an event
\* after the fields of the context
Context(c) ==
    (IF c.Timestamp \in {"nil", "true"} THEN << <<"time", "<now>">> >> ELSE <<>>)
        \o (IF c.Caller THEN << <<"caller", "<file:line>">> >> ELSE <<>>)

RECURSIVE Interfaces(_, _)
Interfaces(md, keys) ==
    IF keys = <<>> THEN <<>>
    ELSE <<MetaField(Head(keys), md[Head(keys)])>> \o Interfaces(md, Tail(keys))

\* mutant: the keys are used in the order the map yielded them
MetadataFieldsUnsorted(c, iter) == Interfaces(c.Metadata, iter)

\* the metadata step of Config.Compile: the keys are collected in the order
\* iter in which the range over c.Metadata yields them, sorted, and each is
\* added to the context with Interface(key, c.Metadata[key])
MetadataFields(c, iter) ==
    IF Len(iter) > 0 THEN Interfaces(c.Metadata, SortStrings(iter)) ELSE <<>>

\* mutant: the global minimum level is not applied
LoggerLevelIgnored(c) == TraceLevel

\* the level of the logger: zerolog.New starts at TraceLevel, log.Level sets it
LoggerLevel(c) == IF c.MinLevel # Nil THEN c.MinLevel ELSE TraceLevel

\* Config.Compile: the logger and the error it returns, and the constructor
\* calls it made
ConfigCompile(c, reg, so, se, osOK, iter) ==
    IF IsInert(c) THEN [logger |-> Nop, err |-> NoErr, invoked |-> <<>>]
    ELSE LET r == CompileWriters(c.Writers, 0, <<>>, reg, so, se, osOK)
         IN  IF ~r.ok THEN [logger |-> NoLogger, err |-> r.err, invoked |-> r.invoked]
             ELSE LET rw == RealWriter(r.writers)
                  IN  [logger |-> [ok |-> TRUE, level |-> LoggerLevel(c),
                                   ctx |-> MetadataFields(c, iter) \o Context(c),
                                   multi |-> rw.multi,
                                   writers |-> rw.writers],
                       err |-> NoErr, invoked |-> r.invoked]

---------------------------------------------------------------------------
(* The write path of a logger. *)

\* Logger.should: an event below the logger's level is not created
LoggerShould(lg, l) == ~(l < lg.level)

\* Logger.WithLevel(l) followed by Msg: is an event written at all
Emits(lg, l) == l # Disabled /\ LoggerShould(lg, l)

\* multiLevelWriter.WriteLevel: every member in list order; n is the count of
\* the last member asked while no error was seen, err the first error, a
\* short count without error being io.ErrShortWrite
RECURSIVE MultiWriteLevel(_, _, _, _, _, _)
MultiWriteLevel(ws, i, l, p, os, acc) ==
    IF i > Len(ws) THEN acc
    ELSE LET r == WriteLevel(ws[i], l, p, os[i])
             e == CASE r.err # "nil" -> r.err
                    [] r.n # Len(p) -> "short write"
                    [] OTHER -> "nil"
         IN  MultiWriteLevel(ws, i + 1, l, p, os,
                 [n |-> IF acc.err = "nil" THEN r.n ELSE acc.n,
                  err |-> IF acc.err = "nil" THEN e ELSE acc.err,
                  calls |-> acc.calls \o Tag(r.calls, 0, i),
                  offered |-> Append(acc.offered, i)])

\* the logger's writer: io.Discard, the only writer, or the multi-writer
LoggerWrite(lg, l, p, os) ==
    CASE lg.writers = <<>> ->
            [n |-> Len(p), err |-> "nil", calls |-> <<>>, offered |-> <<>>]
      [] lg.multi ->
            MultiWriteLevel(lg.writers, 1, l, p, os,
                [n |-> 0, err |-> "nil", calls |-> <<>>, offered |-> <<>>])
      [] OTHER ->
            LET r == WriteLevel(lg.writers[1], l, p, os[1])
            IN  [n |-> r.n, err |-> r.err, calls |-> Tag(r.calls, 0, 1),
                 offered |-> <<1>>]

---------------------------------------------------------------------------
(* State. *)

NoWriter == [made |-> FALSE, w |-> PlainWriter("buf", FALSE)]

Compiled == logger.ok \/ err.kind # "nil"

InitCommon ==
    /\ Stdout = "os.Stdout"
    /\ Stderr = "os.Stderr"
    /\ logger = NoLogger
    /\ err = NoErr
    /\ cfg = Cfg(<<>>, Nil)
    /\ mlw = NoWriter
    /\ constructed = <<>>
    /\ calls = <<>>
    /\ history = <<>>

Init == InitCommon /\ writerCompilers = RegistryUnix /\ envOK = TRUE

SeqsUpTo(S, n) == UNION {[1..k -> S] : k \in 0..n}

\* Config.Compile on a configuration of Cs
CompileIn(Cs) ==
    /\ ~Compiled
    /\ \E c \in Cs :
        /\ \E iter \in Orders(DOMAIN c.Metadata) :
              LET r == ConfigCompile(c, writerCompilers, Stdout, Stderr, envOK, iter)
              IN  /\ logger' = r.logger /\ err' = r.err
                  /\ constructed' = constructed \o r.invoked
        /\ cfg' = c
        /\ UNCHANGED <<Stdout, Stderr, writerCompilers, envOK, mlw, calls, history>>

\* one record logged at a level of Ls through the compiled logger, the sinks
\* answering with outcomes of Os
LogIn(Ls, Os) ==
    /\ logger.ok
    /\ Len(history) < MaxLogs
    /\ \E l \in Ls :
        /\ \E os \in [1..Len(logger.writers) -> Os] :
            LET id == Len(history) + 1
                p == JSONLine(logger.ctx, l, id)
                r == IF Emits(logger, l) THEN LoggerWrite(logger, l, p, os)
                     ELSE [n |-> 0, err |-> "nil", calls |-> <<>>, offered |-> <<>>]
            IN  /\ calls' = calls \o [i \in DOMAIN r.calls |-> [r.calls[i] EXCEPT !.id = id]]
                /\ history' = Append(history,
                       [op |-> "Log", level |-> l,
                        p |-> IF Emits(logger, l) THEN p ELSE <<>>,
                        emitted |-> Emits(logger, l),
                        n |-> r.n, err |-> r.err, offered |-> r.offered])
        /\ UNCHANGED <<Stdout, Stderr, writerCompilers, envOK, logger, err, cfg, mlw, constructed>>

---------------------------------------------------------------------------
(* Spec: configurations of up to two stdout/stderr writers, each with its   *)
(* own format and severity window, under a global minimum level; the slots  *)
(* hold in-memory buffers, whose writes succeed.                            *)

RoutingWindows ==
    {<<Nil, Nil>>, <<Nil, WarnLevel>>, <<ErrorLevel, Nil>>, <<DebugLevel, InfoLevel>>}

RoutingEntries ==
    {WC(t, f, w[1], w[2]) : t \in {"stdout", "stderr"}, f \in {"json", "pretty"},
                            w \in RoutingWindows}

RoutingConfigs ==
    {Cfg(ws, g) : ws \in SeqsUpTo(RoutingEntries, 2), g \in {Nil, InfoLevel, ErrorLevel}}

Compile == CompileIn(RoutingConfigs)

Log == LogIn(Levels, {"ok"})

Next == Compile \/ Log

Spec == Init /\ [][Next]_vars

---------------------------------------------------------------------------
(* SpecWindow: direct use of the level-windowed writer, as in               *)
(* TestMinMaxLevelWriter: MinMaxLevelWriter(&buf, min, max) on a fresh      *)
(* inner writer, then WriteLevel calls on the result.  One writer is built  *)
(* per run.                                                                 *)

NewMinMaxLevelWriter ==
    /\ ~mlw.made
    /\ \E native \in BOOLEAN, min \in Levels, max \in Levels :
        /\ mlw' = [made |-> TRUE,
                   w |-> MinMaxLevelWriter(PlainWriter("buf", native), min, max)]
        /\ UNCHANGED <<Stdout, Stderr, writerCompilers, envOK, logger, err, cfg, calls, history, constructed>>

DirectWriteLevelIn(Ls, Os) ==
    /\ mlw.made
    /\ Len(history) < MaxWrites
    /\ \E l \in Ls, o \in Os :
        /\ LET id == Len(history) + 1
               p == JSONLine(<<>>, l, id)
               r == WriteLevel(mlw.w, l, p, o)
           IN  /\ calls' = calls \o Tag(r.calls, id, 1)
               /\ history' = Append(history,
                      [op |-> "WriteLevel", level |-> l, p |-> p, emitted |-> TRUE,
                       n |-> r.n, err |-> r.err, offered |-> <<1>>])
        /\ UNCHANGED <<Stdout, Stderr, writerCompilers, envOK, logger, err, cfg, mlw, constructed>>

DirectWriteLevel == DirectWriteLevelIn(Levels, Outcomes)

NextWindow == NewMinMaxLevelWriter \/ DirectWriteLevel

SpecWindow == Init /\ [][NextWindow]_vars

---------------------------------------------------------------------------
(* Properties of the level-windowed writer (SpecWindow). *)

\* the sink invocations made on behalf of API call k
CallsOf(k) == {i \in DOMAIN calls : calls[i].id = k}

\* C1: for every pair of bounds (min > max and NoLevel bounds included) and
\* every level l, WriteLevel(l, p) on the writer MinMaxLevelWriter returned
\* hands p, unchanged and once, to the inner writer if and only if
\* (min is NoLevel or l >= min) and (max is NoLevel or l <= max); a window
\* with two real bounds and min > max forwards nothing, a window with no
\* bound forwards everything.
C1_ForwardsIffInWindow ==
    mlw.made =>
        \A k \in DOMAIN history :
            LET l == history[k].level
                min == mlw.w.MinLevel
                max == mlw.w.MaxLevel
                inside == (min = NoLevel \/ l >= min) /\ (max = NoLevel \/ l <= max)
            IN  /\ (CallsOf(k) # {}) <=> inside
                /\ Cardinality(CallsOf(k)) <= 1
                /\ \A i \in CallsOf(k) :
                      /\ calls[i].p = history[k].p
                      /\ calls[i].method = "WriteLevel" => calls[i].level = l
                /\ (min # NoLevel /\ max # NoLevel /\ min > max) => CallsOf(k) = {}
                /\ (min = NoLevel /\ max = NoLevel) => CallsOf(k) # {}

\* a window [debug, warn] that let the first record through and stopped the
\* second
C1_Witness ==
    /\ mlw.made /\ mlw.w.MinLevel = DebugLevel /\ mlw.w.MaxLevel = WarnLevel
    /\ Len(history) = 2
    /\ CallsOf(1) # {} /\ history[1].level = WarnLevel
    /\ CallsOf(2) = {} /\ history[2].level = ErrorLevel

\* C7 as stated: every WriteLevel call on a level-windowed writer reports
\* success with a byte count of len(p), forwarded or not.
C7_AlwaysFullSuccess ==
    mlw.made =>
        \A k \in DOMAIN history :
            history[k].err = "nil" /\ history[k].n = Len(history[k].p)

\* C7 amended: a WriteLevel call that is filtered out reports (len(p), nil);
\* a call that is forwarded returns what the inner writer's write returned,
\* through the plain adapter as well: (len(p), nil) when the inner write
\* succeeded, its error when it failed, its short count when it was short.
C7_FilteredFullElseInnerResult ==
    mlw.made =>
        \A k \in DOMAIN history :
            LET h == history[k]
            IN  /\ CallsOf(k) = {} => (h.n = Len(h.p) /\ h.err = "nil")
                /\ \A i \in CallsOf(k) :
                      /\ calls[i].o = "ok" => (h.n = Len(h.p) /\ h.err = "nil")
                      /\ calls[i].o = "fail" => (h.n = 0 /\ h.err = "sink error")
                      /\ calls[i].o = "short" => (h.n = Len(h.p) - 1 /\ h.err = "nil")
                      /\ mlw.w.adapter <=> calls[i].method = "Write"

\* a forwarded write through the plain adapter whose inner write failed, and a
\* filtered one
C7_Witness ==
    /\ mlw.made /\ mlw.w.adapter
    /\ Len(history) = 2
    /\ CallsOf(1) # {} /\ history[1].err # "nil"
    /\ CallsOf(2) = {} /\ history[2].n = Len(history[2].p)

---------------------------------------------------------------------------
(* Properties of compiled loggers (Spec). *)

\* the sink invocations member writer m made on behalf of record k
MemberCalls(k, m) == {i \in CallsOf(k) : calls[i].member = m}

\* the copies of record k that sink s holds
InSink(k, s) == {i \in CallsOf(k) : calls[i].sink = s /\ calls[i].o # "fail"}

\* level l lies in the severity window the writer entry wc configures
Admits(wc, l) ==
    /\ wc.MinLevel \in {Nil, NoLevel} \/ l >= wc.MinLevel
    /\ wc.MaxLevel \in {Nil, NoLevel} \/ l <= wc.MaxLevel

\* level l passes the global min_level of the configuration
GlobalAdmits(l) == cfg.MinLevel = Nil \/ l >= cfg.MinLevel

\* the levels a record can carry: trace .. panic, or none
RecordLevels == Levels \ {Disabled}

Disjoint(wa, wb) == \A l \in Levels : ~(Admits(wa, l) /\ Admits(wb, l))

\* C3: with two writers whose windows are disjoint, a logged record that the
\* global min_level admits and whose level lies in one window is delivered
\* once by that writer and not by the other; where the two writers have
\* different sinks it is once in that sink and not in the other.  No record
\* is delivered by both, and none that lies in a window by neither.
C3_DisjointWindowsRoute ==
    (logger.ok /\ Len(cfg.Writers) = 2 /\ Disjoint(cfg.Writers[1], cfg.Writers[2])) =>
        \A k \in DOMAIN history :
            LET l == history[k].level
            IN  /\ ~(MemberCalls(k, 1) # {} /\ MemberCalls(k, 2) # {})
                /\ (l \in RecordLevels /\ GlobalAdmits(l)) =>
                      \A a \in {1, 2} :
                         Admits(cfg.Writers[a], l) =>
                            /\ Cardinality(MemberCalls(k, a)) = 1
                            /\ MemberCalls(k, 3 - a) = {}
                            /\ logger.writers[a].sink # logger.writers[3 - a].sink =>
                                  /\ Cardinality(InSink(k, logger.writers[a].sink)) = 1
                                  /\ InSink(k, logger.writers[3 - a].sink) = {}

\* the configuration of TestWriterConfig_Compile_MultiLevel_Stdio after an
\* info record and an error record
C3_Witness ==
    /\ logger.ok
    /\ cfg.Writers = <<WC("stdout", "pretty", Nil, WarnLevel),
                       WC("stderr", "pretty", ErrorLevel, Nil)>>
    /\ Len(history) = 2
    /\ history[1].level = InfoLevel /\ history[2].level = ErrorLevel
    /\ Cardinality(InSink(1, "os.Stdout")) = 1 /\ InSink(1, "os.Stderr") = {}
    /\ Cardinality(InSink(2, "os.Stderr")) = 1 /\ InSink(2, "os.Stdout") = {}

\* C4: when the configuration has a global min_level, a record below it
\* reaches no sink, whatever the windows of the writers are; every record
\* that reaches a sink is at or above the global min_level.
C4_GlobalMinFirst ==
    (logger.ok /\ cfg.MinLevel # Nil) =>
        /\ \A k \in DOMAIN history :
              history[k].level < cfg.MinLevel =>
                  (CallsOf(k) = {} /\ ~history[k].emitted)
        /\ \A i \in DOMAIN calls : history[calls[i].id].level >= cfg.MinLevel

\* global min_level info, a writer with window [debug, info]: the debug record
\* is not written, the info record is
C4_Witness ==
    /\ logger.ok /\ cfg.MinLevel = InfoLevel
    /\ Len(cfg.Writers) = 1 /\ cfg.Writers[1].MinLevel = DebugLevel
    /\ Len(history) = 2
    /\ history[1].level = DebugLevel /\ CallsOf(1) = {}
    /\ history[2].level = InfoLevel /\ CallsOf(2) # {}

\* C9 as stated: with exactly one writer, a record at or above that writer's
\* min_level (if it has one) is once in the writer's sink.
C9_AtOrAboveMinOnce ==
    (logger.ok /\ Len(cfg.Writers) = 1) =>
        \A k \in DOMAIN history :
            (history[k].level \in RecordLevels
               /\ (cfg.Writers[1].MinLevel = Nil
                     \/ history[k].level >= cfg.Writers[1].MinLevel)) =>
                Cardinality(CallsOf(k)) = 1

\* C9 amended: with exactly one writer the logger writes to that writer
\* itself, not to a multi-writer; a record whose level lies in the writer's
\* window (min_level and max_level) and passes the global min_level is
\* handed to the sink once, any other record not at all; in JSON format the
\* sink receives the bytes the engine produced.
C9_SingleWriterDirect ==
    (logger.ok /\ Len(cfg.Writers) = 1) =>
        /\ ~logger.multi
        /\ Len(logger.writers) = 1
        /\ \A k \in DOMAIN history :
              LET l == history[k].level
              IN  IF l \in RecordLevels /\ GlobalAdmits(l) /\ Admits(cfg.Writers[1], l)
                  THEN /\ Cardinality(CallsOf(k)) = 1
                       /\ \A i \in CallsOf(k) :
                             /\ calls[i].sink = logger.writers[1].sink
                             /\ cfg.Writers[1].Format \in {"", "json"} =>
                                   (calls[i].p = history[k].p
                                      /\ calls[i].p = JSONLine(logger.ctx, l, k))
                             /\ cfg.Writers[1].Format = "pretty" =>
                                   calls[i].p # history[k].p
                  ELSE CallsOf(k) = {}

\* one JSON writer with window [debug, info]: an info record is in the sink
\* byte for byte, an error record is not written
C9_Witness ==
    /\ logger.ok
    /\ cfg.Writers = <<WC("stdout", "json", DebugLevel, InfoLevel)>>
    /\ cfg.MinLevel = Nil
    /\ Len(history) = 2
    /\ history[1].level = InfoLevel
    /\ \E i \in CallsOf(1) : calls[i].p = history[1].p /\ Stored(calls[i]) = history[1].p
    /\ history[2].level = ErrorLevel /\ CallsOf(2) = {}

---------------------------------------------------------------------------
(* SpecFanout: configurations of two or more writers whose sinks may fail   *)
(* or write short.  The sinks are emptied between records (the              *)
(* stdout.Reset() of the tests), so a state holds one record.               *)

FanoutEntries ==
    {WC("stdout", "json", Nil, Nil),
     WC("stderr", "pretty", ErrorLevel, Nil),
     WC("file", "", Nil, WarnLevel),
     WC("stdout", "pretty-colored", DebugLevel, InfoLevel)}

FanoutConfigs ==
    {Cfg(ws, g) : ws \in SeqsUpTo(FanoutEntries, MaxWriters) \ SeqsUpTo(FanoutEntries, 1),
                  g \in {Nil, InfoLevel}}

CompileFanout == CompileIn(FanoutConfigs)

LogFanout == history = <<>> /\ LogIn(Levels, Outcomes)

\* bytes.Buffer.Reset on the sinks
Reset ==
    /\ history # <<>>
    /\ calls' = <<>>
    /\ history' = <<>>
    /\ UNCHANGED <<Stdout, Stderr, writerCompilers, envOK, logger, err, cfg, mlw, constructed>>

NextFanout == CompileFanout \/ LogFanout \/ Reset

SpecFanout == Init /\ [][NextFanout]_vars

\* the members whose sink did not take record k in full
FailedMembers(k) == {calls[i].member : i \in {j \in CallsOf(k) : calls[j].o # "ok"}}

Least(S) == CHOOSE m \in S : \A x \in S : m <= x

\* C8: with two or more writers the logger writes to a multi-writer; every
\* record that passes the global min_level is offered to every member in
\* the order of the writers list, so the sinks are invoked in that order;
\* each member whose window holds the level invokes its sink once, also
\* after an earlier member failed; the write reports no error exactly when
\* no member failed, and otherwise the error of the first member that did.
C8_FanoutInOrder ==
    (logger.ok /\ Len(cfg.Writers) >= 2) =>
        /\ logger.multi
        /\ Len(logger.writers) = Len(cfg.Writers)
        /\ \A k \in DOMAIN history :
              LET h == history[k]
                  n == Len(cfg.Writers)
              IN  /\ h.emitted <=> (h.level \in RecordLevels /\ GlobalAdmits(h.level))
                  /\ ~h.emitted => CallsOf(k) = {}
                  /\ h.emitted =>
                        /\ h.offered = [m \in 1..n |-> m]
                        /\ \A i, j \in CallsOf(k) : i < j => calls[i].member < calls[j].member
                        /\ \A m \in 1..n :
                              Cardinality(MemberCalls(k, m)) =
                                  IF Admits(cfg.Writers[m], h.level) THEN 1 ELSE 0
                        /\ FailedMembers(k) = {} => (h.err = "nil" /\ h.n = Len(h.p))
                        /\ FailedMembers(k) # {} =>
                              \E i \in MemberCalls(k, Least(FailedMembers(k))) :
                                  h.err = IF calls[i].o = "fail" THEN "sink error"
                                          ELSE "short write"

\* the first member's write fails, the second member's is short, and both
\* sinks were invoked, the first before the second
C8_Witness ==
    /\ logger.ok /\ Len(cfg.Writers) = 2
    /\ Len(history) = 1 /\ history[1].emitted
    /\ Len(calls) = 2
    /\ calls[1].member = 1 /\ calls[1].o = "fail"
    /\ calls[2].member = 2 /\ calls[2].o = "short"
    /\ history[1].err = "sink error"

\* C2: a member of the multi-writer whose window does not hold the record's
\* level does not invoke its sink and answers (len(p), nil): the members
\* whose window holds the level still get the record, and when their writes
\* succeed the write of the record reports len(p) and no error.
C2_FilteredIsNotFailure ==
    (logger.ok /\ logger.multi) =>
        \A k \in DOMAIN history :
            \A m \in 1..Len(cfg.Writers) :
                (history[k].emitted /\ ~Admits(cfg.Writers[m], history[k].level)) =>
                    /\ MemberCalls(k, m) = {}
                    /\ \A m2 \in 1..Len(cfg.Writers) :
                          Admits(cfg.Writers[m2], history[k].level) =>
                              Cardinality(MemberCalls(k, m2)) = 1
                    /\ FailedMembers(k) = {} =>
                          (history[k].err = "nil" /\ history[k].n = Len(history[k].p))

\* a warn record: the second member (min_level error) is skipped, the first
\* has it, and the write reports success
C2_Witness ==
    /\ logger.ok
    /\ cfg.Writers = <<WC("stdout", "json", Nil, Nil), WC("stderr", "pretty", ErrorLevel, Nil)>>
    /\ Len(history) = 1 /\ history[1].level = WarnLevel
    /\ MemberCalls(1, 2) = {} /\ Cardinality(MemberCalls(1, 1)) = 1
    /\ history[1].err = "nil" /\ history[1].n = Len(history[1].p)

---------------------------------------------------------------------------
(* SpecCompile: what Config.Compile returns, over writer entries of every   *)
(* format tag and of kinds that are or are not registered, on a unix or a   *)
(* js build, with or without a custom kind registered before compilation,   *)
(* and with an operating system that does or does not let sinks open.       *)

Formats == {"", "json", "pretty", "pretty-colored", "xml"}

CompileEntries == {WC(t, f, Nil, Nil) : t \in {"stdout", "file", "js", "custom"}, f \in Formats}

CompileConfigs ==
    {Cfg(ws, g) : ws \in SeqsUpTo(CompileEntries, MaxWriters), g \in {Nil, Disabled}}

InitCompile ==
    /\ InitCommon
    /\ writerCompilers \in {RegistryUnix, RegistryJS}
    /\ envOK \in BOOLEAN

\* RegisterWriter(wt, compiler), called before the configuration is compiled
RegisterWriter ==
    /\ ~Compiled
    /\ \E wt \in {"custom"}, compiler \in {"compileCustom"} :
          writerCompilers' = Registered(writerCompilers, wt, compiler)
    /\ UNCHANGED <<Stdout, Stderr, envOK, logger, err, cfg, mlw, calls, history, constructed>>

CompileAny == CompileIn(CompileConfigs)

NextCompile == RegisterWriter \/ CompileAny

SpecCompile == InitCompile /\ [][NextCompile]_vars

\* writer entry i names a registered kind
Known(i) == cfg.Writers[i].Type \in DOMAIN writerCompilers

CompilerOf(i) == writerCompilers[cfg.Writers[i].Type]

Unknown == {i \in DOMAIN cfg.Writers : ~Known(i)}

BadFormat(i) == cfg.Writers[i].Format \notin {"", "json", "pretty", "pretty-colored"}

\* the constructor of entry i returns a writer
ConstructorOK(i) ==
    \/ CompilerOf(i) \in {"stdout", "stderr", "compileCustom", "compileJournald", "compileJS"}
    \/ CompilerOf(i) \in {"compileFile", "compileSyslog"} /\ envOK

\* entry i compiles: registered kind, constructor succeeds, and a format tag
\* that is valid or that the js constructor has overwritten
EntryFine(i) ==
    Known(i) /\ ConstructorOK(i) /\ (~BadFormat(i) \/ CompilerOf(i) = "compileJS")

\* C6 as stated: whenever some writer entry has an unregistered type,
\* Config.Compile returns no logger and an error naming the position and the
\* type of such an entry.
C6_UnknownTypeAlwaysFails ==
    (Compiled /\ Unknown # {}) =>
        /\ ~logger.ok
        /\ \E i \in Unknown :
              /\ err.kind = "unknown writer type"
              /\ err.pos = i
              /\ err.tag = cfg.Writers[i].Type

\* C6 amended: when the global min_level is not disabled and some writer
\* entry has an unregistered type, Config.Compile returns no logger and an
\* error for the first entry that fails; that entry is at or before the first
\* one with an unregistered type, and when it is that one (as it is after
\* stdout entries with valid formats) the error is "unknown writer type" with
\* its 1-based position and its type.
C6_UnknownTypeFails ==
    (Compiled /\ cfg.MinLevel # Disabled /\ Unknown # {}) =>
        LET u == Least(Unknown)
        IN  /\ ~logger.ok
            /\ err.kind # "nil"
            /\ err.pos \in 1..u
            /\ err.pos = u =>
                  (err.kind = "unknown writer type" /\ err.tag = cfg.Writers[u].Type)
            /\ (\A j \in 1..(u - 1) : EntryFine(j)) => err.pos = u

\* the second entry has a kind nobody registered
C6_Witness ==
    /\ Compiled /\ ~logger.ok
    /\ cfg.MinLevel = Nil
    /\ cfg.Writers = <<WC("stdout", "pretty", Nil, Nil), WC("custom", "json", Nil, Nil)>>
    /\ "custom" \notin DOMAIN writerCompilers
    /\ err = [kind |-> "unknown writer type", pos |-> 2, tag |-> "custom"]

Failing == {i \in DOMAIN cfg.Writers : ~EntryFine(i)}

\* the constructor calls made for entry i
ConstructedAt(i) == {k \in DOMAIN constructed : constructed[k].pos = i}

\* C12: Config.Compile goes through the writer entries in list order and, in
\* an entry, looks up and invokes the constructor before it examines the
\* format tag.  The constructor calls are in list order, at most one per
\* entry, each with the compiler registered for the entry's type.  When
\* compilation fails no logger is returned, the error names the first entry
\* that fails, the constructor of every earlier entry has run once, that of
\* no later entry has run, and that of the failing entry has run exactly when
\* its type is registered: so it has run when the error is the format tag,
\* and an entry with an unregistered type or a failing constructor is
\* reported as such whatever its format tag.  When compilation of a
\* configuration that is not inert succeeds, every constructor has run once.
C12_ConstructorsInOrder ==
    Compiled =>
        /\ \A a, b \in DOMAIN constructed : a < b => constructed[a].pos < constructed[b].pos
        /\ \A k \in DOMAIN constructed :
              /\ constructed[k].pos \in DOMAIN cfg.Writers
              /\ Known(constructed[k].pos)
              /\ constructed[k].compiler = CompilerOf(constructed[k].pos)
        /\ ~logger.ok =>
              /\ err.kind # "nil"
              /\ Failing # {}
              /\ err.pos = Least(Failing)
              /\ \A j \in DOMAIN cfg.Writers :
                    Cardinality(ConstructedAt(j)) =
                        IF j < err.pos \/ (j = err.pos /\ Known(j)) THEN 1 ELSE 0
              /\ err.kind = "unknown format" => ConstructedAt(err.pos) # {}
              /\ ~Known(err.pos) => err.kind = "unknown writer type"
              /\ (Known(err.pos) /\ ~ConstructorOK(err.pos)) =>
                    err.kind \in {"rotate failed", "dial failed", "not supported on this OS"}
        /\ (logger.ok /\ ~IsInert(cfg)) =>
              \A j \in DOMAIN cfg.Writers : Cardinality(ConstructedAt(j)) = 1

\* the second of two entries has a bad format tag: both constructors have
\* run, in list order, and there is no logger
C12_Witness ==
    /\ Compiled /\ ~logger.ok
    /\ cfg.Writers = <<WC("stdout", "pretty", Nil, Nil), WC("file", "xml", Nil, Nil)>>
    /\ constructed = << [pos |-> 1, compiler |-> "stdout"],
                        [pos |-> 2, compiler |-> "compileFile"] >>
    /\ err = [kind |-> "unknown format", pos |-> 2, tag |-> "xml"]

---------------------------------------------------------------------------
(* SpecNop: configurations with no writers or with the global min_level     *)
(* disabled, next to configurations that are neither, with entries that     *)
(* compile and entries that do not.                                         *)

NopEntries ==
    {WC("stdout", "json", Nil, Nil),
     WC("stderr", "pretty", Nil, WarnLevel),
     WC("file", "", Nil, Nil),
     WC("custom", "json", Nil, Nil),
     WC("stdout", "xml", Nil, Nil)}

NopConfigs ==
    {Cfg(ws, g) : ws \in SeqsUpTo(NopEntries, MaxWriters), g \in {Nil, Disabled}}

InitNop == InitCommon /\ writerCompilers = RegistryUnix /\ envOK \in BOOLEAN

CompileNop == CompileIn(NopConfigs)

LogNop == LogIn(Levels, {"ok"})

NextNop == CompileNop \/ LogNop

SpecNop == InitNop /\ [][NextNop]_vars

\* C5: for a configuration with no writers, or with the global min_level
\* disabled, Config.Compile returns a logger and no error whatever the writer
\* entries are, and no log call at any level reaches any sink.
C5_InertLogger ==
    (Compiled /\ (Len(cfg.Writers) = 0 \/ cfg.MinLevel = Disabled)) =>
        /\ logger.ok
        /\ err = NoErr
        /\ calls = <<>>
        /\ \A k \in DOMAIN history : ~history[k].emitted

\* min_level disabled with a writer of an unregistered kind: compiled without
\* error, and a panic record and a record without level left no trace
C5_Witness ==
    /\ logger.ok /\ err = NoErr
    /\ cfg.MinLevel = Disabled
    /\ cfg.Writers = <<WC("stdout", "json", Nil, Nil), WC("custom", "json", Nil, Nil)>>
    /\ Len(history) = 2
    /\ history[1].level = PanicLevel /\ history[2].level = NoLevel
    /\ calls = <<>>

---------------------------------------------------------------------------
(* SpecMetadata: a configuration with metadata is compiled, a record is     *)
(* logged, and the same configuration is compiled again, the range over     *)
(* the metadata map yielding its keys in any order each time.               *)

\* number of compilations of the configuration
MaxCompiles == 2

\* the keys "Zoo", "fo" and "foo", as bytes
KeyZoo == <<90, 111, 111>>
KeyFo == <<102, 111>>
KeyFoo == <<102, 111, 111>>

MetaKeys == {KeyZoo, KeyFo, KeyFoo}

MetaConfigs ==
    {[Cfg(<<WC("stdout", f, Nil, Nil)>>, Nil) EXCEPT !.Metadata = md] :
        f \in {"json", "pretty"},
        md \in UNION {[K -> {"5", "asd"}] : K \in SUBSET MetaKeys}}

Compilations == {k \in DOMAIN history : history[k].op = "Compile"}

\* Config.Compile on a configuration with metadata; a later call compiles the
\* same configuration again
CompileMeta ==
    /\ Cardinality(Compilations) < MaxCompiles
    /\ \E c \in MetaConfigs :
        /\ Compiled => c = cfg
        /\ \E iter \in Orders(DOMAIN c.Metadata) :
            /\ LET r == ConfigCompile(c, writerCompilers, Stdout, Stderr, envOK, iter)
               IN  /\ logger' = r.logger /\ err' = r.err
                   /\ constructed' = constructed \o r.invoked
            /\ history' = Append(history,
                   [op |-> "Compile", iter |-> iter, level |-> NoLevel, p |-> <<>>,
                    emitted |-> FALSE, n |-> 0, err |-> "nil", offered |-> <<>>])
        /\ cfg' = c
    /\ UNCHANGED <<Stdout, Stderr, writerCompilers, envOK, mlw, calls>>

\* one record logged through the logger of the last compilation
LogMeta ==
    /\ logger.ok
    /\ history # <<>>
    /\ history[Len(history)].op = "Compile"
    /\ \E l \in {DebugLevel, ErrorLevel} :
        LET id == Len(history) + 1
            p == JSONLine(logger.ctx, l, Cardinality(Compilations))
            r == LoggerWrite(logger, l, p, <<"ok">>)
        IN  /\ Emits(logger, l)
            /\ calls' = calls \o [i \in DOMAIN r.calls |-> [r.calls[i] EXCEPT !.id = id]]
            /\ history' = Append(history,
                   [op |-> "Log", level |-> l, p |-> p, emitted |-> TRUE,
                    n |-> r.n, err |-> r.err, offered |-> r.offered])
    /\ UNCHANGED <<Stdout, Stderr, writerCompilers, envOK, logger, err, cfg, mlw, constructed>>

NextMetadata == CompileMeta \/ LogMeta

SpecMetadata == Init /\ [][NextMetadata]_vars

\* the metadata fields of a line, in the order they stand in it
MetaOf(p) == SelectSeq(p, LAMBDA t : t[1] = "field")

\* the keys of the model in ascending lexicographic order, written out
KeysAscending == <<KeyZoo, KeyFo, KeyFoo>>

Rank(key) == CHOOSE i \in DOMAIN KeysAscending : KeysAscending[i] = key

\* fs holds each metadata field of the configuration once, with its value,
\* the keys ascending
CarriesMetadata(fs) ==
    /\ Len(fs) = Cardinality(DOMAIN cfg.Metadata)
    /\ \A a \in DOMAIN fs :
          /\ fs[a][2] \in DOMAIN cfg.Metadata
          /\ fs[a][3] = cfg.Metadata[fs[a][2]]
    /\ \A a, b \in DOMAIN fs : a < b => Rank(fs[a][2]) < Rank(fs[b][2])

\* C11: every line that reaches a sink, in JSON and in pretty format, carries
\* each metadata field of the configuration once, with its value, the keys in
\* ascending lexicographic order, whatever order the range over the map
\* yielded them in; all lines written by loggers compiled from the same
\* configuration carry the same sequence of fields.
C11_MetadataSorted ==
    /\ logger.ok => CarriesMetadata(MetaOf(logger.ctx))
    /\ \A i \in DOMAIN calls : CarriesMetadata(MetaOf(calls[i].p))
    /\ \A i, j \in DOMAIN calls : MetaOf(calls[i].p) = MetaOf(calls[j].p)

\* a JSON configuration with three keys compiled twice, the map yielding the
\* keys as foo, Zoo, fo the first time and as fo, foo, Zoo the second: both
\* lines carry Zoo, fo, foo
C11_Witness ==
    /\ Len(history) = 4
    /\ cfg.Writers[1].Format = "json"
    /\ history[1].op = "Compile" /\ history[1].iter = <<KeyFoo, KeyZoo, KeyFo>>
    /\ history[3].op = "Compile" /\ history[3].iter = <<KeyFo, KeyFoo, KeyZoo>>
    /\ Len(calls) = 2
    /\ \A i \in {1, 2} :
          /\ Len(MetaOf(calls[i].p)) = 3
          /\ \A a \in 1..3 : MetaOf(calls[i].p)[a][2] = KeysAscending[a]

---------------------------------------------------------------------------
(* SpecSlots: the application assigns the Stdout and Stderr slots, compiles *)
(* a configuration of stdout and stderr writers, and logs, in any order;    *)
(* the configuration can be compiled again later.                           *)

\* number of assignments to the slots
MaxAssigns == 2

Buffers == {"bufA", "bufB"}

SlotConfigs ==
    {Cfg(ws, Nil) : ws \in {<<WC("stdout", "json", Nil, Nil)>>,
                            <<WC("stderr", "json", Nil, Nil)>>,
                            <<WC("stdout", "pretty", Nil, Nil), WC("stderr", "json", Nil, Nil)>>}}

Assignments == {k \in DOMAIN history : history[k].op = "Assign"}

Logged == {k \in DOMAIN history : history[k].op = "Log"}

\* zeroconfig.Stdout = &buf or zeroconfig.Stderr = &buf
AssignSlot ==
    /\ Cardinality(Assignments) < MaxAssigns
    /\ \E slot \in {"Stdout", "Stderr"}, v \in Buffers :
        /\ Stdout' = IF slot = "Stdout" THEN v ELSE Stdout
        /\ Stderr' = IF slot = "Stderr" THEN v ELSE Stderr
        /\ <<Stdout', Stderr'>> # <<Stdout, Stderr>>
        /\ history' = Append(history,
               [op |-> "Assign", slot |-> slot, value |-> v, level |-> NoLevel,
                p |-> <<>>, emitted |-> FALSE, n |-> 0, err |-> "nil", offered |-> <<>>])
    /\ UNCHANGED <<writerCompilers, envOK, logger, err, cfg, mlw, constructed, calls>>

\* Config.Compile; the record keeps what the slots held when it was called
CompileSlots ==
    /\ Cardinality(Compilations) < MaxCompiles
    /\ \E c \in SlotConfigs :
        /\ Compiled => c = cfg
        /\ LET r == ConfigCompile(c, writerCompilers, Stdout, Stderr, envOK, <<>>)
           IN  /\ logger' = r.logger /\ err' = r.err
               /\ constructed' = constructed \o r.invoked
        /\ cfg' = c
        /\ history' = Append(history,
               [op |-> "Compile", Stdout |-> Stdout, Stderr |-> Stderr, level |-> NoLevel,
                p |-> <<>>, emitted |-> FALSE, n |-> 0, err |-> "nil", offered |-> <<>>])
    /\ UNCHANGED <<Stdout, Stderr, writerCompilers, envOK, mlw, calls>>

\* an info record logged through the logger of the last compilation
LogSlots ==
    /\ logger.ok
    /\ Cardinality(Logged) < MaxLogs
    /\ LET id == Len(history) + 1
           p == JSONLine(logger.ctx, InfoLevel, Cardinality(Logged) + 1)
           r == LoggerWrite(logger, InfoLevel, p, [m \in DOMAIN logger.writers |-> "ok"])
       IN  /\ calls' = calls \o [i \in DOMAIN r.calls |-> [r.calls[i] EXCEPT !.id = id]]
           /\ history' = Append(history,
                  [op |-> "Log", level |-> InfoLevel, p |-> p, emitted |-> TRUE,
                   n |-> r.n, err |-> r.err, offered |-> r.offered])
    /\ UNCHANGED <<Stdout, Stderr, writerCompilers, envOK, logger, err, cfg, mlw, constructed>>

NextSlots == AssignSlot \/ CompileSlots \/ LogSlots

SpecSlots == Init /\ [][NextSlots]_vars

\* the compilation that produced the logger record k was logged through
CompiledAt(k) ==
    CHOOSE c \in Compilations :
        c < k /\ \A d \in Compilations : d < k => d <= c

\* what the slot of writer entry wc held when compilation c was called
SlotAt(c, wc) == IF wc.Type = "stdout" THEN history[c].Stdout ELSE history[c].Stderr

\* C13: a stdout or stderr writer writes to what its slot held when the
\* configuration was compiled: every sink invocation of a record goes to the
\* value the slot had at the compilation of the logger it was logged
\* through, whatever the slot held at start-up and whatever it holds when
\* the record is written; and the logger of the latest compilation holds the
\* values the slots had at that compilation.
C13_SlotReadAtCompile ==
    /\ \A i \in DOMAIN calls :
          calls[i].sink = SlotAt(CompiledAt(calls[i].id), cfg.Writers[calls[i].member])
    /\ \A k \in Logged :
          \A m \in DOMAIN cfg.Writers : Cardinality(MemberCalls(k, m)) = 1
    /\ logger.ok =>
          \A m \in DOMAIN logger.writers :
              logger.writers[m].sink =
                  SlotAt(CompiledAt(Len(history) + 1), cfg.Writers[m])

\* Stdout is set to bufA and the configuration compiled; Stdout is then set
\* to bufB: the record logged next is in bufA; after a second compilation a
\* record is in bufB
C13_Witness ==
    /\ Len(history) = 6
    /\ cfg.Writers = <<WC("stdout", "json", Nil, Nil)>>
    /\ history[1].op = "Assign" /\ history[1].slot = "Stdout" /\ history[1].value = "bufA"
    /\ history[2].op = "Compile"
    /\ history[3].op = "Assign" /\ history[3].slot = "Stdout" /\ history[3].value = "bufB"
    /\ history[4].op = "Log"
    /\ history[5].op = "Compile"
    /\ history[6].op = "Log"
    /\ Len(calls) = 2
    /\ calls[1].id = 4 /\ calls[1].sink = "bufA"
    /\ calls[2].id = 6 /\ calls[2].sink = "bufB"

---------------------------------------------------------------------------
(* SpecWrite: a writer built with MinMaxLevelWriter is used through both    *)
(* methods of zerolog.LevelWriter: WriteLevel(l, p) and the plain Write(p). *)

TaggedWrite == DirectWriteLevelIn({DebugLevel, ErrorLevel}, {"ok"})

\* Write(p) on the writer returned by MinMaxLevelWriter
DirectWrite ==
    /\ mlw.made
    /\ Len(history) < MaxWrites
    /\ \E o \in Outcomes :
        /\ LET id == Len(history) + 1
               p == JSONLine(<<>>, InfoLevel, id)
               r == MlwWrite(mlw.w, p, o)
           IN  /\ calls' = calls \o Tag(r.calls, id, 1)
               /\ history' = Append(history,
                      [op |-> "Write", level |-> NoLevel, p |-> p, emitted |-> TRUE,
                       n |-> r.n, err |-> r.err, offered |-> <<1>>])
        /\ UNCHANGED <<Stdout, Stderr, writerCompilers, envOK, logger, err, cfg, mlw,
                       constructed>>

NextWrite == NewMinMaxLevelWriter \/ TaggedWrite \/ DirectWrite

SpecWrite == Init /\ [][NextWrite]_vars

\* C14: a plain Write(p) on a level-windowed writer invokes the Write of the
\* inner writer once with p, whatever min and max are, and returns what the
\* inner writer returned; a WriteLevel(l, p) on the same writer reaches the
\* inner writer only when l is inside the window.
C14_PlainWriteUnfiltered ==
    mlw.made =>
        \A k \in DOMAIN history :
            /\ history[k].op = "Write" =>
                  /\ Cardinality(CallsOf(k)) = 1
                  /\ \A i \in CallsOf(k) :
                        /\ calls[i].method = "Write"
                        /\ calls[i].p = history[k].p
                        /\ calls[i].sink = "buf"
                        /\ history[k].n = Len(Stored(calls[i]))
                        /\ history[k].err = IF calls[i].o = "fail" THEN "sink error" ELSE "nil"
            /\ history[k].op = "WriteLevel" =>
                  Cardinality(CallsOf(k)) =
                      IF /\ mlw.w.MinLevel = NoLevel \/ history[k].level >= mlw.w.MinLevel
                         /\ mlw.w.MaxLevel = NoLevel \/ history[k].level <= mlw.w.MaxLevel
                      THEN 1 ELSE 0

\* a window with min above max: WriteLevel at error level is filtered, the
\* Write after it reaches the inner writer
C14_Witness ==
    /\ mlw.made
    /\ mlw.w.MinLevel = ErrorLevel /\ mlw.w.MaxLevel = DebugLevel
    /\ Len(history) = 2
    /\ history[1].op = "WriteLevel" /\ history[1].level = ErrorLevel /\ CallsOf(1) = {}
    /\ history[2].op = "Write"
    /\ \E i \in CallsOf(2) : Stored(calls[i]) = history[2].p

====
